---- MODULE Spec2Model ----
(***************************************************************************)
(* A model of src/app.py: the start-up pipeline (load, derive features,    *)
(* synthetic coordinates, StandardScaler + DBSCAN) and the Dash callback   *)
(* update_dashboard (filter, then four projections).                       *)
(*                                                                         *)
(* Units.  Timestamps are whole hours since the midnight that opens the    *)
(* sample, so .dt.hour is t % 24 and .dt.date is t \div 24.  Distances are  *)
(* tenths of a mile.  A coordinate is an integer count of 1/200 degree:    *)
(* np.random.rand() is sampled on the grid k/70, k \in 0..69, so that      *)
(* lat = 40.55 + 0.35*k/70 is 8110 + k and lon = -74.15 + 0.35*k/70 is     *)
(* -14830 + k.  All arithmetic on them is exact integer arithmetic.        *)
(***************************************************************************)
EXTENDS Integers, Sequences, FiniteSets

VARIABLES
  pc,     \* position of the module-level script: start, loaded, clustered, serving
  df,     \* the global DataFrame: a sequence of rows (records keyed by column)
  fits,   \* how many times DBSCAN(...).fit has run
  req,    \* <<>> or <<FilterSpec>>: the arguments of the last callback
  dff,    \* the callback's local filtered frame, as of its return
  out     \* <<>> or <<result>>: what the last callback handed back to Dash

vars == <<pc, df, fits, req, dff, out>>

----------------------------------------------------------------------------
(* Bounds of the model *)

\* largest number of rows in an enumerated small table
MaxRecords == 2
\* largest number of rows in a generated table
MaxPoints == 43

(* Constants of the program *)

\* DBSCAN(min_samples=40)
MinSamples == 40
\* DBSCAN(eps=0.15), as the fraction EpsNum / EpsDen
EpsNum == 3
EpsDen == 20
\* px.histogram(nbins=30)
nbins == 30

\* a missing passenger_count (the column is float: NaN compares False)
NaN == 0 - 1

Periods == {"morning", "afternoon", "evening", "night"}

----------------------------------------------------------------------------
(* Generic helpers *)

RECURSIVE SumSeq(_)
SumSeq(s) == IF s = <<>> THEN 0 ELSE Head(s) + SumSeq(Tail(s))

Min(S) == CHOOSE x \in S : \A y \in S : x <= y

RECURSIVE SortedSeq(_)
\* the elements of a finite set of integers, ascending
SortedSeq(S) == IF S = {} THEN <<>> ELSE <<Min(S)>> \o SortedSeq(S \ {Min(S)})

Range(s) == {s[i] : i \in DOMAIN s}

\* f itself; comparing a function makes TLC tabulate it once instead of
\* evaluating its defining expression at every application
Tabulated(f) == IF f = <<>> THEN <<>> ELSE f

\* all sequences over S of length at most n
SeqsUpTo(S, n) == UNION {[1..k -> S] : k \in 0..n}

----------------------------------------------------------------------------
(* LOAD DATA: read_parquet, sample, derived columns, synthetic coordinates *)

\* raw rows (tpep_pickup_datetime, passenger_count, trip_distance) that the
\* enumerated small tables are built from
RawPool ==
  { [tpep_pickup_datetime |-> 13, passenger_count |-> 1,   trip_distance |-> 0],
    [tpep_pickup_datetime |-> 24, passenger_count |-> 2,   trip_distance |-> 10],
    [tpep_pickup_datetime |-> 7,  passenger_count |-> NaN, trip_distance |-> 11] }

\* row i of the generated table: pickups walk through 0..25 (every hour of the
\* day, then the next midnight and the hour after it), passenger counts through
\* 1, 2, 1, NaN, 2, 0 and distances through 0, 1.0, 1.1, 0.5, 2.5 miles
GenRaw(i) ==
  [tpep_pickup_datetime |-> (i - 1) % 26,
   passenger_count      |-> <<1, 2, 1, NaN, 2, 0>>[((i - 1) % 6) + 1],
   trip_distance        |-> <<0, 10, 11, 5, 25>>[((i - 1) % 5) + 1]]

GenTable(n) == [i \in 1..n |-> GenRaw(i)]

\* np.random.rand draws, as grid steps k \in 0..69, for the layouts the model
\* loads.  Each is a pair <<k for lat, k for lon>> per row.
Layouts == {"same", "line", "grid", "outlier", "chain"}

Draws(layout, n) ==
  [i \in 1..n |->
     CASE layout = "same"    -> <<0, 0>>
       [] layout = "line"    -> <<i - 1, 0>>
       [] layout = "grid"    -> <<(i - 1) % 7, (i - 1) \div 7>>
       [] layout = "outlier" -> IF i = n THEN <<45, 45>> ELSE <<0, 0>>
       [] layout = "chain"   -> IF i = 1 THEN <<45, 0>>
                                ELSE IF i <= 4 THEN <<5 - i, 0>>
                                ELSE <<0, 0>>]

\* lines 19-29: reset_index, hour, date, lat, lon
derive(raw, draws) ==
  [i \in 1..Len(raw) |->
     [index                |-> i - 1,
      tpep_pickup_datetime |-> raw[i].tpep_pickup_datetime,
      passenger_count      |-> raw[i].passenger_count,
      trip_distance        |-> raw[i].trip_distance,
      hour                 |-> raw[i].tpep_pickup_datetime % 24,
      date                 |-> raw[i].tpep_pickup_datetime \div 24,
      lat                  |-> 8110 + draws[i][1],
      lon                  |-> (0 - 14830) + draws[i][2]]]

----------------------------------------------------------------------------
(* CLUSTERING: StandardScaler().fit_transform, DBSCAN(...).fit *)

\* A matrix of n points.  Entry c of row i stands for the real number
\* num[i][c] / sqrt(den2[c]); den2[c] > 0.
coords(d) ==
  [num  |-> Tabulated([i \in 1..Len(d) |-> <<d[i].lat, d[i].lon>>]),
   den2 |-> <<200 * 200, 200 * 200>>]

\* StandardScaler: (x - mean) / std per column, population std, and a zero
\* std replaced by 1.  With S = sum x and V = n*sum x^2 - S^2 = n^2 * var,
\* (x - mean)/std = (n*x - S)/sqrt(V); with std = 0 it is (n*x - S)/n taken in
\* the column's own unit.  The sums are taken of x - x[1], which changes
\* neither n*x - S nor V and keeps the integers small.
StandardScaler(m) ==
  LET n == Len(m.num)
      x(i, c) == m.num[i][c] - m.num[1][c]
      S(c) == SumSeq([i \in 1..n |-> x(i, c)])
      Q(c) == SumSeq([i \in 1..n |-> x(i, c) * x(i, c)])
      V(c) == n * Q(c) - S(c) * S(c)
      s1 == S(1)
      s2 == S(2)
      v1 == V(1)
      v2 == V(2)
  IN  [num  |-> Tabulated([i \in 1..n |-> <<n * x(i, 1) - s1, n * x(i, 2) - s2>>]),
       den2 |-> <<IF v1 = 0 THEN n * n * m.den2[1] ELSE v1,
                  IF v2 = 0 THEN n * n * m.den2[2] ELSE v2>>]

scaled(d) == StandardScaler(coords(d))

\* D1/V1 + D2/V2 <= eps^2, exactly (D the squared numerator differences)
WithinEps(D1, V1, D2, V2) ==
  LET e == EpsNum * EpsNum
      f == EpsDen * EpsDen
  IN  IF f * D1 > e * V1 \/ f * D2 > e * V2 THEN FALSE
      ELSE IF D2 = 0 THEN TRUE
      ELSE IF D1 = 0 THEN TRUE
      ELSE IF V1 = V2 THEN f * (D1 + D2) <= e * V1
      ELSE f * D2 * V1 <= V2 * (e * V1 - f * D1)

\* Euclidean distance between rows i and j of m is at most eps
Near(m, i, j) ==
  LET a == m.num[i][1] - m.num[j][1]
      b == m.num[i][2] - m.num[j][2]
  IN  WithinEps(a * a, m.den2[1], b * b, m.den2[2])

\* radius_neighbors: row i's neighbourhood, itself included
neighborhoods(m) ==
  Tabulated([i \in 1..Len(m.num) |-> {j \in 1..Len(m.num) : Near(m, i, j)}])

\* core_samples: at least min_samples rows in the neighbourhood
core_excl_self(nb) == {i \in DOMAIN nb : Cardinality(nb[i] \ {i}) >= MinSamples}

core_samples(nb) == {i \in DOMAIN nb : Cardinality(nb[i]) >= MinSamples}

RECURSIVE expand(_, _, _, _)
\* dbscan_inner's inner loop for one seed: every row taken from the work list
\* that has no label yet gets the label, and a core row puts its unlabelled
\* neighbours on the work list.  The labels do not depend on the order in
\* which the work list is emptied, so it is kept as a set.
expand(nb, core, todo, members) ==
  IF todo = {} THEN members
  ELSE LET i == Min(todo)
           more == IF i \in core THEN nb[i] \ (members \cup {i}) ELSE {}
       IN  expand(nb, core, (todo \ {i}) \cup more, members \cup {i})

RECURSIVE dbscan_inner(_, _, _, _, _)
\* dbscan_inner's outer loop: rows in index order, a new label for every core
\* row not yet labelled; labelled rows are never relabelled
dbscan_inner(nb, core, i, label_num, labels) ==
  IF i > Len(labels) THEN labels
  ELSE IF labels[i] # -1 \/ i \notin core
       THEN dbscan_inner(nb, core, i + 1, label_num, labels)
       ELSE LET free == {j \in DOMAIN labels : labels[j] = -1}
                got == expand(Tabulated([k \in DOMAIN nb |-> nb[k] \cap free]),
                          core, {i}, {})
            IN  dbscan_inner(nb, core, i + 1, label_num + 1,
                             [j \in DOMAIN labels |->
                                IF j \in got THEN label_num ELSE labels[j]])

\* DBSCAN(eps, min_samples).fit(m).labels_
DBSCAN(m) ==
  LET nb == neighborhoods(m)
  IN  dbscan_inner(nb, core_samples(nb), 1, 0, [i \in 1..Len(m.num) |-> -1])

----------------------------------------------------------------------------
(* CALLBACK: update_dashboard *)

\* lines 160-161: both comparisons inclusive, on the full timestamp
date_filter(d, start, end) ==
  LET keep(r) == r.tpep_pickup_datetime >= start /\ r.tpep_pickup_datetime <= end
  IN  SelectSeq(d, keep)

\* the rows re-sorted after the filter (newest row first)
passenger_filter_resorted(d, passengers) ==
  LET keep(r) == r.passenger_count # NaN /\ r.passenger_count >= passengers
      k == SelectSeq(d, keep)
  IN  [i \in 1..Len(k) |-> k[Len(k) + 1 - i]]

\* line 163: NaN >= x is False
passenger_filter(d, passengers) ==
  LET keep(r) == r.passenger_count # NaN /\ r.passenger_count >= passengers
  IN  SelectSeq(d, keep)

\* the upper bound taken exclusive
distance_filter_strict(d, distance) ==
  LET keep(r) == r.trip_distance >= distance[1] /\ r.trip_distance < distance[2]
  IN  SelectSeq(d, keep)

\* lines 164-165
distance_filter(d, distance) ==
  LET keep(r) == r.trip_distance >= distance[1] /\ r.trip_distance <= distance[2]
  IN  SelectSeq(d, keep)

\* a label the check boxes never send
period_typo(h) ==
  IF 6 <= h /\ h < 12 THEN "Morning"
  ELSE IF 12 <= h /\ h < 18 THEN "afternoon"
  ELSE IF 18 <= h /\ h < 24 THEN "evening"
  ELSE "night"

\* lines 167-171
period(h) ==
  IF 6 <= h /\ h < 12 THEN "morning"
  ELSE IF 12 <= h /\ h < 18 THEN "afternoon"
  ELSE IF 18 <= h /\ h < 24 THEN "evening"
  ELSE "night"

\* line 173: a new column on the local frame
add_period(d) ==
  [i \in 1..Len(d) |->
     [c \in DOMAIN d[i] \cup {"period"} |->
        IF c = "period" THEN period(d[i].hour) ELSE d[i][c]]]

\* line 174
period_filter(d, tod) ==
  LET keep(r) == r.period \in tod
  IN  SelectSeq(d, keep)

\* lines 158-174: the local frame dff at line 175
filtered(d, start, end, passengers, distance, tod) ==
  period_filter(
    add_period(
      distance_filter(
        passenger_filter(date_filter(d, start, end), passengers),
        distance)),
    tod)

\* line 177: the points handed to scatter_mapbox (lat, lon, color)
map_data(d) ==
  [i \in 1..Len(d) |-> [lat |-> d[i].lat, lon |-> d[i].lon, cluster |-> d[i].cluster]]

\* the hours 0..23 all reported, absent ones with a count of 0
time_df_all_hours(d) ==
  [k \in 1..24 |->
     [hour |-> k - 1, Trips |-> Cardinality({i \in DOMAIN d : d[i].hour = k - 1})]]

\* line 185: groupby('hour').size().reset_index(name='Trips'): one row per hour
\* that occurs, ascending
time_df(d) ==
  LET hours == SortedSeq({d[i].hour : i \in DOMAIN d})
      size(h) == Cardinality({i \in DOMAIN d : d[i].hour = h})
  IN  [k \in 1..Len(hours) |-> [hour |-> hours[k], Trips |-> size(hours[k])]]

\* line 191: the x values handed to px.histogram, which bins them when drawn
dist_data(d) ==
  [x |-> [i \in 1..Len(d) |-> d[i].trip_distance], nbins |-> nbins]

RECURSIVE unique(_)
\* the distinct elements of a sequence, in order of first appearance
unique(s) ==
  IF s = <<>> THEN <<>>
  ELSE LET u == unique(SubSeq(s, 1, Len(s) - 1))
           x == s[Len(s)]
       IN  IF x \in Range(u) THEN u ELSE Append(u, x)

RECURSIVE sort_desc(_)
\* sort_values(ascending=False) on the counts; equal counts keep their order
sort_desc(rows) ==
  IF rows = <<>> THEN <<>>
  ELSE LET top == CHOOSE i \in DOMAIN rows :
                    /\ \A j \in DOMAIN rows : rows[j].Trips <= rows[i].Trips
                    /\ \A j \in 1..(i - 1) : rows[j].Trips < rows[i].Trips
       IN  <<rows[top]>> \o
           sort_desc(SubSeq(rows, 1, top - 1) \o SubSeq(rows, top + 1, Len(rows)))

\* lines 196-197: value_counts() (NaN dropped, most frequent first), then
\* reset_index and the two column names
pass_df(d) ==
  LET vals == SelectSeq([i \in 1..Len(d) |-> d[i].passenger_count],
                        LAMBDA v : v # NaN)
      keys == unique(vals)
      count(v) == Cardinality({i \in DOMAIN vals : vals[i] = v})
  IN  sort_desc([k \in 1..Len(keys) |->
                   [Passengers |-> keys[k], Trips |-> count(keys[k])]])

\* the grouped projections taken of the global frame instead of the local one
figures_of_df(d) ==
  [kind     |-> "figures",
   map_fig  |-> map_data(d),
   time_fig |-> time_df(df),
   dist_fig |-> dist_data(d),
   pass_fig |-> pass_df(df)]

\* line 202: the four figures' data
figures(d) ==
  [kind     |-> "figures",
   map_fig  |-> map_data(d),
   time_fig |-> time_df(d),
   dist_fig |-> dist_data(d),
   pass_fig |-> pass_df(d)]

----------------------------------------------------------------------------
(* The state machine *)

\* what the widgets of the layout can send (lines 67-102), sampled: the two
\* midnights, the first two slider marks, the slider positions 0 and 1 mile,
\* and these sets of check boxes
Dates == {0, 24}
Passengers == {1, 2}
Sliders == {0, 10}
Tods ==
  {{}, {"morning"}, {"afternoon"}, {"evening"}, {"night"},
   {"morning", "evening"}, Periods}
FilterSpecs ==
  [start : Dates, end : Dates, passengers : Passengers,
   distance : Sliders \X Sliders, tod : Tods]

\* the tables read_parquet + sample can deliver
Tables ==
  {derive(raw, Draws("grid", Len(raw))) :
     raw \in SeqsUpTo(RawPool, MaxRecords) \ {<<>>}}
  \cup {derive(GenTable(MaxPoints), Draws(l, MaxPoints)) : l \in {"same", "chain"}}

\* the inputs the clusterer is tried on
ClusterInputs ==
  {derive(GenTable(n), Draws(l, n)) : n \in 0..MaxPoints, l \in Layouts}

Init ==
  /\ pc = "start"
  /\ df = <<>>
  /\ fits = 0
  /\ req = <<>>
  /\ dff = <<>>
  /\ out = <<>>

\* lines 16-29
Load ==
  /\ pc = "start"
  /\ \E t \in Tables : df' = t
  /\ pc' = "loaded"
  /\ UNCHANGED <<fits, req, dff, out>>

\* df['cluster'] = db.labels_
labels_raw(d) == DBSCAN(coords(d))

labels_(d) == DBSCAN(scaled(d))

\* lines 34-38.  StandardScaler refuses an array without rows (ValueError), and
\* the script dies there.
Cluster ==
  /\ pc = "loaded"
  /\ IF Len(df) = 0
     THEN /\ pc' = "failed"
          /\ UNCHANGED <<df, fits>>
     ELSE /\ LET l == labels_(df)
             IN  df' = [i \in 1..Len(df) |->
                          [c \in DOMAIN df[i] \cup {"cluster"} |->
                             IF c = "cluster" THEN l[i] ELSE df[i][c]]]
          /\ fits' = fits + 1
          /\ pc' = "clustered"
  /\ UNCHANGED <<req, dff, out>>

\* the server started without waiting for the clustering block
Run_early ==
  /\ pc \in {"loaded", "clustered"}
  /\ pc' = "serving"
  /\ UNCHANGED <<df, fits, req, dff, out>>

\* lines 43-209: the app and its layout are built and app.run starts serving
Run ==
  /\ pc = "clustered"
  /\ pc' = "serving"
  /\ UNCHANGED <<df, fits, req, dff, out>>

\* the callback filtering the global frame itself (global df; df = df[...])
update_dashboard_global(start, end, passengers, distance, tod) ==
  /\ pc = "serving"
  /\ LET d == filtered(df, start, end, passengers, distance, tod)
     IN  /\ dff' = d
         /\ df' = d
         /\ out' = <<figures(d)>>
  /\ req' = <<[start |-> start, end |-> end, passengers |-> passengers,
               distance |-> distance, tod |-> tod]>>
  /\ UNCHANGED <<pc, fits>>

\* lines 156-202, one whole call
update_dashboard(start, end, passengers, distance, tod) ==
  /\ pc = "serving"
  /\ LET d == filtered(df, start, end, passengers, distance, tod)
     IN  /\ dff' = d
         /\ out' = <<figures(d)>>
  /\ req' = <<[start |-> start, end |-> end, passengers |-> passengers,
               distance |-> distance, tod |-> tod]>>
  /\ UNCHANGED <<pc, df, fits>>

Interaction ==
  \E fs \in FilterSpecs :
    update_dashboard(fs.start, fs.end, fs.passengers, fs.distance, fs.tod)

Next == Load \/ Cluster \/ Run \/ Interaction

Spec == Init /\ [][Next]_vars

\* the clusterer alone, on the inputs of ClusterInputs
InitCluster ==
  /\ pc = "loaded"
  /\ df \in ClusterInputs
  /\ fits = 0
  /\ req = <<>>
  /\ dff = <<>>
  /\ out = <<>>

NextCluster == Cluster

SpecCluster == InitCluster /\ [][NextCluster]_vars

----------------------------------------------------------------------------
(* Properties *)

served == req # <<>>

\* a callback has returned; its arguments
fs == req[1]

\* the rows of a frame d that carry index label x
RowsAt(d, x) == {j \in DOMAIN d : d[j].index = x}

AllNoise == \A i \in DOMAIN df : df[i].cluster = -1

SameSpot == \A i \in DOMAIN df : df[i].lat = df[1].lat /\ df[i].lon = df[1].lon

PairwiseFar(m) ==
  \A i \in DOMAIN m.num : \A j \in DOMAIN m.num : i # j => ~Near(m, i, j)

\* the time-of-day bucket, as the half-open intervals of the filter contract
Bucket(h) ==
  CASE h \in 6..11  -> "morning"
    [] h \in 12..17 -> "afternoon"
    [] h \in 18..23 -> "evening"
    [] h \in 0..5   -> "night"

Passes(r, f) ==
  /\ f.start <= r.tpep_pickup_datetime /\ r.tpep_pickup_datetime <= f.end
  /\ r.passenger_count # NaN /\ r.passenger_count >= f.passengers
  /\ f.distance[1] <= r.trip_distance /\ r.trip_distance <= f.distance[2]
  /\ Bucket(r.hour) \in f.tod

\* C1: after any call, a row of the Dataset is in the filtered view if and
\* only if all four predicates hold for it: start <= pickup <= end,
\* passenger_count >= min_passengers, lo <= trip_distance <= hi (all bounds
\* inclusive) and its time-of-day bucket is one of the chosen periods.
C1_FilterIff ==
  served =>
    \A i \in DOMAIN df : (RowsAt(dff, df[i].index) # {}) <=> Passes(df[i], fs)

\* C1 witness: a row at exactly hi is kept while a row just above hi, which
\* passes the three other predicates, is dropped.
C1_Witness ==
  /\ served
  /\ \E i \in DOMAIN df :
       df[i].trip_distance = fs.distance[2] /\ RowsAt(dff, df[i].index) # {}
  /\ \E i \in DOMAIN df :
       /\ df[i].trip_distance = fs.distance[2] + 1
       /\ Passes(df[i], [fs EXCEPT !.distance = <<0, df[i].trip_distance>>])
       /\ RowsAt(dff, df[i].index) = {}

\* C2: the filtered view is a subsequence of the Dataset in Dataset order:
\* every row of it is a row of the Dataset, unchanged in the Dataset's
\* columns, and the rows' index labels strictly increase (no reordering, no
\* duplicate).
C2_Stable ==
  served =>
    /\ \A j \in DOMAIN dff :
         \E i \in DOMAIN df :
           /\ df[i].index = dff[j].index
           /\ \A c \in DOMAIN df[i] : dff[j][c] = df[i][c]
    /\ \A j \in DOMAIN dff : \A k \in DOMAIN dff :
         j < k => dff[j].index < dff[k].index

\* C2 witness: a view of several rows that leaves out a row between two it
\* keeps.
C2_Witness ==
  /\ served
  /\ \E j \in DOMAIN dff :
       j + 1 \in DOMAIN dff /\ dff[j + 1].index > dff[j].index + 1

\* C3: once clustering is done the shared Dataset never changes (no row
\* added, removed or modified, no column such as period added), and every row
\* of a filtered view carries the cluster label of its Dataset row.
C3_DatasetFrozen ==
  /\ [](served =>
          /\ \A i \in DOMAIN df : DOMAIN df[i] = DOMAIN df[1] /\ "period" \notin DOMAIN df[i]
          /\ \A j \in DOMAIN dff :
               \E i \in DOMAIN df :
                 df[i].index = dff[j].index /\ df[i].cluster = dff[j].cluster)
  /\ [][(pc \in {"clustered", "serving"}) => (df' = df)]_vars

\* C3 witness: a call has returned a view holding a clustered row and a noise
\* row, and the Dataset holds more rows than the view.
C3_Witness ==
  /\ served
  /\ Len(dff) < Len(df)
  /\ \E j \in DOMAIN dff : dff[j].cluster = 0
  /\ \E j \in DOMAIN dff : dff[j].cluster = -1

InvalidSpec(f) == f.start > f.end \/ f.distance[1] > f.distance[2]

\* C4: a call whose FilterSpec has start > end or lo > hi fails with an error
\* instead of returning projections.
C4_InvalidSpecFails ==
  served /\ InvalidSpec(fs) => out[1].kind = "error"

\* C5: when a valid FilterSpec excludes every row, the call still returns the
\* four projections, each of them empty.
C5_EmptyResult ==
  served /\ ~InvalidSpec(fs) /\ dff = <<>> =>
    /\ out[1].kind = "figures"
    /\ out[1].map_fig = <<>>
    /\ out[1].time_fig = <<>>
    /\ out[1].dist_fig.x = <<>>
    /\ out[1].pass_fig = <<>>

\* C5 witness: a call with no period ticked, and otherwise a FilterSpec that
\* some row passes, has returned.
C5_Witness ==
  /\ served
  /\ fs.tod = {}
  /\ \E i \in DOMAIN df : Passes(df[i], [fs EXCEPT !.tod = Periods])
  /\ dff = <<>>
  /\ out[1].kind = "figures"

\* C6: whenever the server is up, and so whenever a call starts or has
\* returned, the clusterer has run exactly once and every row has a cluster
\* label; it never runs more than once.
C6_ClusterOnce ==
  /\ fits <= 1
  /\ served => pc = "serving"
  /\ pc = "serving" =>
       /\ fits = 1
       /\ \A i \in DOMAIN df : "cluster" \in DOMAIN df[i]

\* C6 witness: a call has returned.
C6_Witness ==
  served /\ pc = "serving" /\ fits = 1 /\ Len(df) > 1

OthersPassAll(f) ==
  Len(distance_filter(passenger_filter(date_filter(df, f.start, f.end),
                                       f.passengers), f.distance)) = Len(df)

\* C7: period sends every hour 0..23 to exactly one of the four periods, and
\* for a call with all four periods ticked the four single-period views of the
\* same call add up to the view returned; when the other predicates pass every
\* row that sum is the size of the Dataset.
C7_Conservation ==
  /\ \A h \in 0..23 : Cardinality({p \in Periods : period(h) = p}) = 1
  /\ served /\ fs.tod = Periods =>
       LET n(p) == Len(filtered(df, fs.start, fs.end, fs.passengers,
                                fs.distance, {p}))
           sum == n("morning") + n("afternoon") + n("evening") + n("night")
       IN  /\ sum = Len(dff)
           /\ OthersPassAll(fs) => sum = Len(df)

\* C7 witness: a call with all periods ticked whose other predicates pass
\* every row of a Dataset with rows in two different periods.
C7_Witness ==
  /\ served
  /\ fs.tod = Periods
  /\ OthersPassAll(fs)
  /\ \E i \in DOMAIN df : \E j \in DOMAIN df : period(df[i].hour) # period(df[j].hour)
  /\ Len(dff) = Len(df)

C9_Noise ==
  pc = "clustered" /\ PairwiseFar(scaled(df)) => AllNoise

\* C9 witness: min_samples or more points, pairwise farther apart than eps,
\* have been clustered.
C9_Witness ==
  pc = "clustered" /\ Len(df) >= MinSamples /\ PairwiseFar(scaled(df)) /\ AllNoise

\* the rows of a projection p whose column col holds v
Holding(p, col, v) == {k \in DOMAIN p : p[k][col] = v}

\* C10: the hour projection and the passenger projection hold exactly one row
\* per key that occurs in the filtered view, with the number of view rows of
\* that key as its count, and no row for any other key; so the counts of each
\* add up to the size of the view.
C10_Projections ==
  served =>
    LET t == out[1].time_fig
        p == out[1].pass_fig
    IN  /\ \A h \in {dff[j].hour : j \in DOMAIN dff} \cup {t[k].hour : k \in DOMAIN t} :
             LET c == Cardinality({j \in DOMAIN dff : dff[j].hour = h})
             IN  /\ c > 0
                 /\ Cardinality(Holding(t, "hour", h)) = 1
                 /\ \A k \in Holding(t, "hour", h) : t[k].Trips = c
        /\ \A v \in {dff[j].passenger_count : j \in DOMAIN dff}
                      \cup {p[k].Passengers : k \in DOMAIN p} :
             LET c == Cardinality({j \in DOMAIN dff : dff[j].passenger_count = v})
             IN  /\ c > 0
                 /\ Cardinality(Holding(p, "Passengers", v)) = 1
                 /\ \A k \in Holding(p, "Passengers", v) : p[k].Trips = c
        /\ SumSeq([k \in DOMAIN t |-> t[k].Trips]) = Len(dff)
        /\ SumSeq([k \in DOMAIN p |-> p[k].Trips]) = Len(dff)

\* C10 witness: a view in which some hour and some passenger count occur more
\* than once and others once, of a Dataset with hours and counts the view
\* lacks.
C10_Witness ==
  /\ served
  /\ Len(out[1].time_fig) >= 2
  /\ Len(out[1].pass_fig) >= 2
  /\ \E k \in DOMAIN out[1].time_fig : out[1].time_fig[k].Trips >= 2
  /\ \E k \in DOMAIN out[1].pass_fig : out[1].pass_fig[k].Trips >= 2
  /\ \E i \in DOMAIN df : \A j \in DOMAIN dff : dff[j].hour # df[i].hour

====
